---- MODULE Spec2Model ----
(***************************************************************************)
(* effect-forms: the FormData <-> record codec (FormData.ts), the issue    *)
(* tree collector and result merger (FormModelFormatter.ts) and the decode *)
(* orchestrator (decodeFormModel).                                         *)
(*                                                                         *)
(* Strings are sequences of one-character strings, so that joining paths,  *)
(* converting numbers to text and recognising integer-like property keys   *)
(* are computed, not assumed.  A JavaScript value is a record tagged by t. *)
(* A plain JavaScript object is the sequence of its own properties in      *)
(* property enumeration order.                                             *)
(***************************************************************************)
EXTENDS Integers, Sequences, FiniteSets, TLC

VARIABLES
    input,          \* the caller's FormData or record literal
    chain,          \* the results of the codec calls applied to it, in order
    issue,          \* the ParseIssue handed to FormModelFormatter.formatIssue
    arrayIssues,    \* what ParseResult.ArrayFormatter.formatIssue returned for it
    actualEntries,  \* formatIssue's local: collectActualValues(issue, [])
    actualMap,      \* formatIssue's local: new Map(actualEntries)
    formatted,      \* the Effect formatIssue returned
    pc,             \* where decodeFormModel's generator stands
    decodeInput,    \* the record schemaRecord's decode handed to the struct schema
    decodeCalls,    \* calls of Schema.decode made by the running decodeFormModel
    validated,      \* the Effect Schema.decode(formDataSchema)(formData) ended with
    outcome         \* the Effect decodeFormModel ended with

codecVars == <<input, chain>>
fmtVars == <<issue, arrayIssues, actualEntries, actualMap, formatted>>
decodeVars == <<pc, decodeInput, decodeCalls, validated, outcome>>
vars == <<input, chain, issue, arrayIssues, actualEntries, actualMap, formatted,
          pc, decodeInput, decodeCalls, validated, outcome>>

(***************************************************************************)
(* Bounds of the model.                                                    *)
(***************************************************************************)
MaxEntries == 3
MaxItems == 2
MaxChain == 3
MaxNodes == 4
MaxArrayIssues == 2

(***************************************************************************)
(* JavaScript values and strings.                                          *)
(***************************************************************************)
Digits == <<"0", "1", "2", "3", "4", "5", "6", "7", "8", "9">>

IsDigit(c) == \E i \in 1..Len(Digits) : Digits[i] = c

DigitVal(c) == (CHOOSE i \in 1..Len(Digits) : Digits[i] = c) - 1

RECURSIVE NatToString(_)
NatToString(n) ==
    IF n < Len(Digits) THEN <<Digits[n + 1]>>
    ELSE NatToString(n \div Len(Digits)) \o <<Digits[(n % Len(Digits)) + 1]>>

Str(s) == [t |-> "str", s |-> s]
Num(n) == [t |-> "num", n |-> n]
File(id) == [t |-> "file", id |-> id]
List(items) == [t |-> "list", items |-> items]
Null == [t |-> "null"]
Undefined == [t |-> "undefined"]

\* String(value) of JavaScript, for the scalar values a record can hold.
String(v) ==
    CASE v.t = "str" -> v.s
      [] v.t = "num" -> IF v.n < 0 THEN <<"-">> \o NatToString(0 - v.n)
                        ELSE NatToString(v.n)
      [] v.t = "file" -> <<"[", "o", "b", "j", "e", "c", "t", " ", "F", "i", "l", "e", "]">>
      [] v.t = "null" -> <<"n", "u", "l", "l">>
      [] v.t = "undefined" -> <<"u", "n", "d", "e", "f", "i", "n", "e", "d">>

\* value == null / value != null of JavaScript: true of null and undefined.
IsNullish(v) == v.t \in {"null", "undefined"}

IsArray(v) == v.t = "list"

InstanceOfFile(v) == v.t = "file"

(***************************************************************************)
(* Plain objects: own string keys enumerate integer indices first, in      *)
(* ascending numeric order, then the other keys in creation order.         *)
(***************************************************************************)
\* a < b for two canonical decimal strings (no leading zero).
RECURSIVE DecimalLess(_, _)
DecimalLess(a, b) ==
    IF Len(a) # Len(b) THEN Len(a) < Len(b)
    ELSE IF a = <<>> THEN FALSE
    ELSE IF a[1] # b[1] THEN DigitVal(a[1]) < DigitVal(b[1])
    ELSE DecimalLess(Tail(a), Tail(b))

\* The largest array index, 2^32 - 2.
MaxArrayIndexString == <<"4", "2", "9", "4", "9", "6", "7", "2", "9", "4">>

IsArrayIndex(k) ==
    /\ Len(k) > 0
    /\ \A i \in 1..Len(k) : IsDigit(k[i])
    /\ (Len(k) = 1 \/ k[1] # "0")
    /\ ~DecimalLess(MaxArrayIndexString, k)

ObjHas(o, k) == \E i \in 1..Len(o) : o[i].key = k

ObjGet(o, k) == o[CHOOSE i \in 1..Len(o) : o[i].key = k].value

ObjKeys(o) == [i \in 1..Len(o) |-> o[i].key]

\* o[k] = v
ObjSet(o, k, v) ==
    IF ObjHas(o, k)
    THEN [i \in 1..Len(o) |-> IF o[i].key = k THEN [key |-> k, value |-> v] ELSE o[i]]
    ELSE IF IsArrayIndex(k)
    THEN LET pos == Cardinality({i \in 1..Len(o) :
                        IsArrayIndex(o[i].key) /\ DecimalLess(o[i].key, k)})
         IN SubSeq(o, 1, pos) \o <<[key |-> k, value |-> v]>> \o SubSeq(o, pos + 1, Len(o))
    ELSE Append(o, [key |-> k, value |-> v])

(***************************************************************************)
(* FormData: the ordered list of its entries.                              *)
(***************************************************************************)
FormDataAppendEntry(fd, name, value) == Append(fd, [name |-> name, value |-> value])

\* Variant: the entries are grouped from the last to the first.
RECURSIVE groupByReversed(_, _)
groupByReversed(fd, n) ==
    IF n = 0 THEN <<>>
    ELSE LET out == groupByReversed(fd, n - 1)
             a == fd[Len(fd) + 1 - n]
             k == a.name
         IN IF ObjHas(out, k) THEN ObjSet(out, k, <<a>> \o ObjGet(out, k))
            ELSE ObjSet(out, k, <<a>>)

\* Array.groupBy(Array.fromIterable(formData.entries()), ([key]) => key)
RECURSIVE groupByUpTo(_, _)
groupByUpTo(fd, n) ==
    IF n = 0 THEN <<>>
    ELSE LET out == groupByUpTo(fd, n - 1)
             a == fd[n]
             k == a.name
         IN IF ObjHas(out, k) THEN ObjSet(out, k, Append(ObjGet(out, k), a))
            ELSE ObjSet(out, k, <<a>>)

groupBy(fd) == groupByUpTo(fd, Len(fd))

\* Variant: every group becomes a list, also a group of one.
toRecordValueAlwaysList(group) ==
    List([i \in 1..Len(group) |-> group[i].value])

\* Variant: a group keeps only its first value.
toRecordValueFirstOnly(group) == group[1].value

\* ([key, entries]) => [key, values.length === 1 ? values[0] : [...values]]
toRecordValue(group) ==
    LET values == [i \in 1..Len(group) |-> group[i].value]
    IN IF Len(values) = 1 THEN values[1] ELSE List(values)

\* Record.fromIterableWith(Object.entries(grouped), f)
RECURSIVE fromIterableWithUpTo(_, _)
fromIterableWithUpTo(grouped, n) ==
    IF n = 0 THEN <<>>
    ELSE ObjSet(fromIterableWithUpTo(grouped, n - 1),
                grouped[n].key, toRecordValue(grouped[n].value))

toRecord(formData) ==
    LET grouped == groupBy(formData)
    IN fromIterableWithUpTo(grouped, Len(grouped))

\* Variant: every item is stringified, a File too.
appendCoercedAllStrings(acc, key, item) ==
    Append(acc, [name |-> key, value |-> Str(String(item))])

\* acc.append(key, item instanceof File ? item : String(item))
appendCoerced(acc, key, item) ==
    FormDataAppendEntry(acc, key, IF InstanceOfFile(item) THEN item ELSE Str(String(item)))

\* Array.forEach(value, (item) => { if (item == null) return; acc.append(...) })
RECURSIVE appendItemsUpTo(_, _, _, _)
appendItemsUpTo(acc, key, items, n) ==
    IF n = 0 THEN acc
    ELSE LET prev == appendItemsUpTo(acc, key, items, n - 1)
         IN IF IsNullish(items[n]) THEN prev ELSE appendCoerced(prev, key, items[n])

\* Variant: only a scalar null is skipped, not a null inside a list.
fromFormDataRecordStepKeepNullItems(acc, value, key) ==
    IF IsArray(value)
    THEN acc \o [i \in 1..Len(value.items) |->
                    [name |-> key,
                     value |-> IF InstanceOfFile(value.items[i]) THEN value.items[i]
                               ELSE Str(String(value.items[i]))]]
    ELSE IF ~IsNullish(value) THEN appendCoerced(acc, key, value)
    ELSE acc

\* the reducer of fromFormDataRecord
fromFormDataRecordStep(acc, value, key) ==
    IF IsArray(value) THEN appendItemsUpTo(acc, key, value.items, Len(value.items))
    ELSE IF ~IsNullish(value) THEN appendCoerced(acc, key, value)
    ELSE acc

\* Record.reduce(input, new FormData(), ...)
RECURSIVE fromFormDataRecordUpTo(_, _)
fromFormDataRecordUpTo(obj, n) ==
    IF n = 0 THEN <<>>
    ELSE fromFormDataRecordStep(fromFormDataRecordUpTo(obj, n - 1), obj[n].value, obj[n].key)

fromFormDataRecord(obj) == fromFormDataRecordUpTo(obj, Len(obj))

(***************************************************************************)
(* FormModelFormatter: the issue tree collector and the result merger.     *)
(*                                                                         *)
(* A ParseIssue is a record with _tag and actual; a Pointer has path and   *)
(* issue, a Composite has issues, a Refinement and a Transformation have   *)
(* issue.  A SingleOrNonEmpty<X> is [isArray |-> FALSE, item |-> x] or     *)
(* [isArray |-> TRUE, items |-> <<x, ...>>].                                *)
(***************************************************************************)
Single(x) == [isArray |-> FALSE, item |-> x]
NonEmpty(xs) == [isArray |-> TRUE, items |-> xs]

\* Array.isArray(x) ? x : [x]
asArray(x) == IF x.isArray THEN x.items ELSE <<x.item>>

\* Array.prototype.join(separator): null and undefined elements give "".
RECURSIVE join(_, _)
join(path, separator) ==
    IF path = <<>> THEN <<>>
    ELSE LET last == path[Len(path)]
             text == IF IsNullish(last) THEN <<>> ELSE String(last)
         IN IF Len(path) = 1 THEN text
            ELSE join(SubSeq(path, 1, Len(path) - 1), separator) \o separator \o text

Dot == <<".">>

\* "actual" in issue ? issue.actual : undefined
actualOf(node) == IF "actual" \in DOMAIN node THEN node.actual ELSE Undefined

\* Variant: a Pointer puts its own segments before the prefix it was reached with.
RECURSIVE collectActualValuesPrepending(_, _)
collectActualValuesPrepending(node, path) ==
    LET key == join(path, Dot)
        childrenFrom(list, prefix) ==
            LET RECURSIVE upTo(_)
                upTo(n) == IF n = 0 THEN <<>>
                           ELSE upTo(n - 1) \o collectActualValuesPrepending(list[n], prefix)
            IN upTo(Len(list))
    IN CASE node._tag = "Pointer" ->
              LET newPath == asArray(node.path) \o path
              IN <<[key |-> join(newPath, Dot), actual |-> node.actual]>>
                    \o collectActualValuesPrepending(node.issue, newPath)
         [] node._tag = "Composite" ->
              <<[key |-> key, actual |-> actualOf(node)]>>
                    \o childrenFrom(asArray(node.issues), path)
         [] node._tag \in {"Refinement", "Transformation"} ->
              <<[key |-> key, actual |-> actualOf(node)]>>
                    \o collectActualValuesPrepending(node.issue, path)
         [] OTHER -> <<[key |-> key, actual |-> actualOf(node)]>>

\* Variant: a Composite hands only its first child to the traversal.
RECURSIVE collectActualValuesFirstChild(_, _)
collectActualValuesFirstChild(node, path) ==
    LET key == join(path, Dot)
    IN CASE node._tag = "Pointer" ->
              LET newPath == path \o asArray(node.path)
              IN <<[key |-> join(newPath, Dot), actual |-> node.actual]>>
                    \o collectActualValuesFirstChild(node.issue, newPath)
         [] node._tag = "Composite" ->
              <<[key |-> key, actual |-> actualOf(node)]>>
                    \o collectActualValuesFirstChild(asArray(node.issues)[1], path)
         [] node._tag \in {"Refinement", "Transformation"} ->
              <<[key |-> key, actual |-> actualOf(node)]>>
                    \o collectActualValuesFirstChild(node.issue, path)
         [] OTHER -> <<[key |-> key, actual |-> actualOf(node)]>>

RECURSIVE collectActualValues(_, _)
collectActualValues(node, path) ==
    LET actual == actualOf(node)
        key == join(path, Dot)
        \* Array.flatMap(issueList, (childIssue) => collectActualValues(childIssue, path))
        flatMap(issueList) ==
            LET RECURSIVE upTo(_)
                upTo(n) == IF n = 0 THEN <<>>
                           ELSE upTo(n - 1) \o collectActualValues(issueList[n], path)
            IN upTo(Len(issueList))
    IN CASE node._tag = "Pointer" ->
              LET pathItems == asArray(node.path)
                  newPath == path \o pathItems
                  newKey == join(newPath, Dot)
              IN <<[key |-> newKey, actual |-> node.actual]>>
                    \o collectActualValues(node.issue, newPath)
         [] node._tag = "Composite" ->
              LET currentEntry == [key |-> key, actual |-> actual]
                  issueList == asArray(node.issues)
                  childEntries == flatMap(issueList)
              IN <<currentEntry>> \o childEntries
         [] node._tag = "Refinement" ->
              <<[key |-> key, actual |-> actual]>> \o collectActualValues(node.issue, path)
         [] node._tag = "Transformation" ->
              <<[key |-> key, actual |-> actual]>> \o collectActualValues(node.issue, path)
         [] OTHER -> <<[key |-> key, actual |-> actual]>>

\* A Map: its entries in insertion order.
MapHas(m, k) == \E i \in 1..Len(m) : m[i].key = k

\* Map.prototype.get: undefined for a key the map does not hold
MapGet(m, k) == IF MapHas(m, k) THEN m[CHOOSE i \in 1..Len(m) : m[i].key = k].actual
                ELSE Undefined

MapSet(m, k, v) ==
    IF MapHas(m, k)
    THEN [i \in 1..Len(m) |-> IF m[i].key = k THEN [key |-> k, actual |-> v] ELSE m[i]]
    ELSE Append(m, [key |-> k, actual |-> v])

\* Variant: a key keeps the first value given for it.
RECURSIVE newMapFirstWins(_)
newMapFirstWins(es) ==
    IF es = <<>> THEN <<>>
    ELSE LET m == newMapFirstWins(SubSeq(es, 1, Len(es) - 1))
             e == es[Len(es)]
         IN IF MapHas(m, e.key) THEN m ELSE MapSet(m, e.key, e.actual)

\* new Map(entries)
RECURSIVE newMap(_)
newMap(es) ==
    IF es = <<>> THEN <<>>
    ELSE LET e == es[Len(es)]
         IN MapSet(newMap(SubSeq(es, 1, Len(es) - 1)), e.key, e.actual)

\* Effect / Either values
succeed(a) == [_tag |-> "Success", value |-> a]
fail(e) == [_tag |-> "Failure", value |-> e]

\* Effect.flip
flip(self) == IF self._tag = "Success" THEN fail(self.value) ELSE succeed(self.value)

\* Variant: the merge starts from the collected actual values, so that a path
\* the formatted list does not name stays in the result.
RECURSIVE mergeKeepingActuals(_, _)
mergeKeepingActuals(list, m) ==
    IF list = <<>>
    THEN LET RECURSIVE seed(_)
             seed(n) == IF n = 0 THEN <<>>
                        ELSE ObjSet(seed(n - 1), m[n].key,
                                    [actual |-> m[n].actual, message |-> Undefined])
         IN seed(Len(m))
    ELSE LET arrayIssue == list[Len(list)]
             key == join(arrayIssue.path, Dot)
         IN ObjSet(mergeKeepingActuals(SubSeq(list, 1, Len(list) - 1), m), key,
                   [actual |-> MapGet(m, key), message |-> arrayIssue.message])

\* Array.reduce(arrayIssues, {}, (result, arrayIssue) => ...)
RECURSIVE merge(_, _)
merge(list, m) ==
    IF list = <<>> THEN <<>>
    ELSE LET arrayIssue == list[Len(list)]
             key == join(arrayIssue.path, Dot)
             actual == MapGet(m, key)
         IN ObjSet(merge(SubSeq(list, 1, Len(list) - 1), m), key,
                   [actual |-> actual, message |-> arrayIssue.message])

\* FormModelFormatter.formatIssue; formattedList is what
\* ParseResult.ArrayFormatter.formatIssue(issue) succeeded with.
\* ParseResult.map(self, (arrayIssues) => Array.reduce(arrayIssues, {}, ...))
mapMerge(self, m) ==
    IF self._tag = "Success" THEN succeed(merge(self.value, m)) ELSE self

formatIssue(node, formattedList) ==
    LET actualEntriesOfIssue == collectActualValues(node, <<>>)
        m == newMap(actualEntriesOfIssue)
    IN mapMerge(succeed(formattedList), m)

\* FormModelFormatter.formatError
formatError(error, formattedList) == formatIssue(error.issue, formattedList)

(***************************************************************************)
(* Inputs of the codec.                                                    *)
(***************************************************************************)
KeyA == <<"a">>
Key01 == <<"0", "1">>
Key2 == <<"2">>
Key10 == <<"1", "0">>
Keys == {KeyA, Key01, Key2, Key10}
RecordKeys == {KeyA, Key2, Key10}

StrX == Str(<<"x">>)
File1 == File(1)
Num17 == Num(17)

EntryValues == {StrX, File1}
ItemValues == {StrX, File1, Null, Num17}
ScalarValues == ItemValues \cup {Undefined}

RECURSIVE SeqsUpTo(_, _)
SeqsUpTo(S, n) ==
    IF n = 0 THEN {<<>>}
    ELSE LET shorter == SeqsUpTo(S, n - 1)
         IN shorter \cup {Append(s, x) : s \in {q \in shorter : Len(q) = n - 1}, x \in S}

RecordValues(n) == ScalarValues \cup {List(s) : s \in SeqsUpTo(ItemValues, n)}

ValueSize(v) == IF IsArray(v) /\ Len(v.items) > 1 THEN Len(v.items) ELSE 1

RECURSIVE SumSizes(_, _)
SumSizes(obj, n) == IF n = 0 THEN 0 ELSE SumSizes(obj, n - 1) + ValueSize(obj[n].value)

ObjSize(obj) == SumSizes(obj, Len(obj))

AsFormData(fd) == [kind |-> "formData", entries |-> fd]
AsRecord(obj) == [kind |-> "record", obj |-> obj]

Cur == IF chain = <<>> THEN input ELSE chain[Len(chain)]

(***************************************************************************)
(* The codec's operations.                                                 *)
(***************************************************************************)
InitCodec ==
    /\ input \in {AsFormData(<<>>), AsRecord(<<>>)}
    /\ chain = <<>>
    /\ issue = Null /\ arrayIssues = <<>> /\ actualEntries = <<>>
    /\ actualMap = <<>> /\ formatted = Null
    /\ pc = "idle" /\ decodeInput = Null /\ decodeCalls = 0
    /\ validated = Null /\ outcome = Null

\* formData.append(name, value) by the caller
FormDataAppend ==
    /\ chain = <<>>
    /\ input.kind = "formData"
    /\ Len(input.entries) < MaxEntries
    /\ \E name \in Keys, value \in EntryValues :
          input' = AsFormData(FormDataAppendEntry(input.entries, name, value))
    /\ UNCHANGED <<chain, fmtVars, decodeVars>>

\* the caller's record literal { ..., key: value }
RecordSet ==
    /\ chain = <<>>
    /\ input.kind = "record"
    /\ \E key \in RecordKeys, value \in RecordValues(MaxItems) :
          /\ ObjSize(ObjSet(input.obj, key, value)) <= MaxItems
          /\ input' = AsRecord(ObjSet(input.obj, key, value))
    /\ UNCHANGED <<chain, fmtVars, decodeVars>>

ToRecord ==
    /\ Cur.kind = "formData"
    /\ Len(chain) < MaxChain
    /\ chain' = Append(chain, AsRecord(toRecord(Cur.entries)))
    /\ UNCHANGED <<input, fmtVars, decodeVars>>

FromFormDataRecord ==
    /\ Cur.kind = "record"
    /\ Len(chain) < MaxChain
    /\ chain' = Append(chain, AsFormData(fromFormDataRecord(Cur.obj)))
    /\ UNCHANGED <<input, fmtVars, decodeVars>>

NextCodec ==
    \/ FormDataAppend
    \/ RecordSet
    \/ ToRecord
    \/ FromFormDataRecord

SpecCodec == InitCodec /\ [][NextCodec]_vars

(***************************************************************************)
(* Inputs of the formatter: the issue trees of the validator and the lists *)
(* of ParseResult.ArrayFormatter, both produced outside this repository.   *)
(***************************************************************************)
KeyAge == <<"a", "g", "e">>
KeyPets == <<"p", "e", "t", "s">>
Str17 == Str(<<"1", "7">>)
Obj == [t |-> "object"]

Type(actual) == [_tag |-> "Type", actual |-> actual]
Missing == [_tag |-> "Missing", actual |-> Undefined]
Pointer(path, actual, child) ==
    [_tag |-> "Pointer", path |-> path, actual |-> actual, issue |-> child]
Composite(actual, issues) == [_tag |-> "Composite", actual |-> actual, issues |-> issues]
Refinement(actual, child) == [_tag |-> "Refinement", actual |-> actual, issue |-> child]
Transformation(actual, child) ==
    [_tag |-> "Transformation", actual |-> actual, issue |-> child]

Leaves == {Type(Num17), Type(Str17), Missing}
PointerPaths == {Single(Str(KeyAge)), NonEmpty(<<Str(KeyPets), Num(1)>>)}

\* the issue trees of exactly n nodes, and the non-empty lists of trees of n nodes
RECURSIVE Trees(_), Forests(_)
Trees(n) ==
    IF n = 1 THEN Leaves
    ELSE {Pointer(p, Obj, c) : p \in PointerPaths, c \in Trees(n - 1)}
         \cup {Refinement(Str17, c) : c \in Trees(n - 1)}
         \cup {Transformation(Obj, c) : c \in Trees(n - 1)}
         \cup {Composite(Obj, Single(c)) : c \in Trees(n - 1)}
         \cup {Composite(Obj, NonEmpty(f)) : f \in Forests(n - 1)}

Forests(n) ==
    {<<c>> : c \in Trees(n)}
    \cup UNION {{<<c>> \o f : c \in Trees(k), f \in Forests(n - k)} : k \in 1..(n - 1)}

IssuesUpTo(n) == UNION {Trees(k) : k \in 1..n}

Issues == IssuesUpTo(MaxNodes)
SmallIssues == IssuesUpTo(MaxNodes - 1)

\* the issue of the test "fails with error model": age=17 against
\* NumberFromString >= 18
AgeFieldIssue == Pointer(Single(Str(KeyAge)), Obj, Refinement(Str17, Type(Num17)))

AgeIssue == Composite(Obj, NonEmpty(<<AgeFieldIssue>>))

ArrayIssue(path, message) == [path |-> path, message |-> message]

FormattedPaths == {<<>>, <<Str(KeyAge)>>, <<Str(KeyPets), Num(1)>>}

ArrayIssueValues ==
    {ArrayIssue(p, <<"m">>) : p \in FormattedPaths}
    \cup {ArrayIssue(<<Str(KeyAge)>>, <<"n">>)}

ShortLists == {<<>>} \cup {<<ArrayIssue(p, <<"m">>)>> : p \in FormattedPaths}
Lists == SeqsUpTo(ArrayIssueValues, MaxArrayIssues)

(***************************************************************************)
(* The formatter called on an issue.                                       *)
(***************************************************************************)
InitFormatter ==
    /\ input = AsFormData(<<>>) /\ chain = <<>>
    /\ issue = Null /\ arrayIssues = <<>> /\ actualEntries = <<>>
    /\ actualMap = <<>> /\ formatted = Null
    /\ pc = "idle" /\ decodeInput = Null /\ decodeCalls = 0
    /\ validated = Null /\ outcome = Null

\* what one run of formatIssue leaves in its locals and returns
RunFormatter(node, list) ==
    /\ issue' = node
    /\ arrayIssues' = list
    /\ actualEntries' = collectActualValues(node, <<>>)
    /\ actualMap' = newMap(collectActualValues(node, <<>>))
    /\ formatted' = formatIssue(node, list)

\* FormModelFormatter.formatIssue(node), called once
FormatIssue ==
    /\ formatted = Null
    /\ \E node \in Issues, list \in ShortLists : RunFormatter(node, list)
    /\ UNCHANGED <<codecVars, decodeVars>>

NextFormatter == FormatIssue

SpecFormatter == InitFormatter /\ [][NextFormatter]_vars

(***************************************************************************)
(* decodeFormModel.                                                        *)
(***************************************************************************)
ParseError(node) == [_tag |-> "ParseError", issue |-> node]

\* Variant: the formatted mapping is returned without Effect.flip.
onDecodeFailureNoFlip(error, list) == formatError(error, list)

\* (error) => FormModelFormatter.formatError(error).pipe(Effect.flip)
onDecodeFailure(error, list) == flip(formatError(error, list))

\* self.pipe(Effect.catchAll((error) => ...))
catchAllDecodeFailure(self, list) ==
    IF self._tag = "Failure" THEN onDecodeFailure(self.value, list) ELSE self

SampleFormData ==
    {<<[name |-> KeyAge, value |-> Str(<<"1", "8">>)]>>,
     <<[name |-> KeyAge, value |-> Str17]>>}

TypedValues == {[age |-> 18], [age |-> 20]}

InitDecode ==
    /\ input = AsFormData(<<>>) /\ chain = <<>>
    /\ issue = Null /\ arrayIssues = <<>> /\ actualEntries = <<>>
    /\ actualMap = <<>> /\ formatted = Null
    /\ pc = "idle" /\ decodeInput = Null /\ decodeCalls = 0
    /\ validated = Null /\ outcome = Null

\* decodeFormModel(model)(formData) up to the validator: Schema.decode is
\* called once and schemaRecord's decode turns the FormData into a record.
DecodeFormModelCall ==
    /\ pc = "idle"
    /\ pc' = "decoding"
    /\ \E formData \in SampleFormData : decodeInput' = toRecord(formData)
    /\ decodeCalls' = decodeCalls + 1
    /\ UNCHANGED <<codecVars, fmtVars, validated, outcome>>

\* the validator succeeds: decoded is returned
ValidatorSucceeds ==
    /\ pc = "decoding"
    /\ \E value \in TypedValues : validated' = succeed(value)
    /\ outcome' = catchAllDecodeFailure(validated', <<>>)
    /\ pc' = "done"
    /\ UNCHANGED <<codecVars, fmtVars, decodeInput, decodeCalls>>

\* the validator fails: Effect.catchAll runs the formatter and flips it
ValidatorFails ==
    /\ pc = "decoding"
    /\ \E node \in SmallIssues, list \in Lists :
          /\ validated' = fail(ParseError(node))
          /\ RunFormatter(node, list)
          /\ outcome' = catchAllDecodeFailure(validated', list)
    /\ pc' = "done"
    /\ UNCHANGED <<codecVars, decodeInput, decodeCalls>>

NextDecode ==
    \/ DecodeFormModelCall
    \/ ValidatorSucceeds
    \/ ValidatorFails

SpecDecode == InitDecode /\ [][NextDecode]_vars

(***************************************************************************)
(* Properties of the codec.                                                *)
(***************************************************************************)
\* the argument of the call that produced chain[i]
Arg(i) == IF i = 1 THEN input ELSE chain[i - 1]

\* formData.getAll(name)
getAll(fd, name) ==
    LET sel == SelectSeq(fd, LAMBDA e : e.name = name)
    IN [i \in 1..Len(sel) |-> sel[i].value]

\* the names of a submission, each at its first occurrence
FirstSeen(fd) ==
    LET first == {i \in 1..Len(fd) : \A j \in 1..(i - 1) : fd[j].name # fd[i].name}
        nth(n) == CHOOSE i \in first : Cardinality({j \in first : j < i}) = n - 1
    IN [n \in 1..Cardinality(first) |-> fd[nth(n)].name]

IsEntryValue(v) == v.t \in {"str", "file"}

\* a record of scalars and of lists of at least two values, none null
IsCleanRecord(obj) ==
    \A i \in 1..Len(obj) :
        \/ IsEntryValue(obj[i].value)
        \/ /\ IsArray(obj[i].value)
           /\ Len(obj[i].value.items) >= 2
           /\ \A j \in 1..Len(obj[i].value.items) : IsEntryValue(obj[i].value.items[j])

KeySet(obj) == {obj[i].key : i \in 1..Len(obj)}

SameRecord(a, b) ==
    /\ KeySet(a) = KeySet(b)
    /\ Len(a) = Len(b)
    /\ \A k \in KeySet(a) : ObjGet(a, k) = ObjGet(b, k)

\* what fromFormDataRecord is to append for one record value
ExpectedEntries(v) ==
    LET items == IF IsArray(v) THEN v.items ELSE <<v>>
        kept == SelectSeq(items, LAMBDA x : ~IsNullish(x))
    IN [j \in 1..Len(kept) |->
            IF kept[j].t = "file" THEN kept[j] ELSE Str(String(kept[j]))]

\* C1: a record of string/file scalars and of lists of at least two such
\* values, without null, comes back from toRecord(fromFormDataRecord(r)) with
\* the same keys and, under each key, the same shape and values in order.
InvRoundTrip ==
    \A i \in 2..Len(chain) :
        (chain[i].kind = "record" /\ IsCleanRecord(Arg(i - 1).obj))
            => SameRecord(chain[i].obj, Arg(i - 1).obj)

WitRoundTrip ==
    /\ Len(chain) >= 2
    /\ input.kind = "record"
    /\ IsCleanRecord(input.obj)
    /\ \E i \in 1..Len(input.obj) :
          /\ IsArray(input.obj[i].value)
          /\ \E j \in 1..Len(input.obj[i].value.items) :
                input.obj[i].value.items[j].t = "file"

\* C2: toRecord stores the bare value for a key with one entry, the list of
\* the values in append order for a key with two or more, nothing for a key
\* without entries; so never an empty or a one-element list.
InvGroupingCardinality ==
    \A i \in 1..Len(chain) :
        chain[i].kind = "record" =>
            LET s == Arg(i).entries
                r == chain[i].obj
            IN /\ \A k \in Keys :
                    LET vals == getAll(s, k)
                    IN /\ Len(vals) = 0 => ~ObjHas(r, k)
                       /\ Len(vals) = 1 => ObjHas(r, k) /\ ObjGet(r, k) = vals[1]
                                                        /\ ~IsArray(ObjGet(r, k))
                       /\ Len(vals) >= 2 => ObjHas(r, k) /\ ObjGet(r, k) = List(vals)
               /\ \A j \in 1..Len(r) :
                    /\ IsArray(r[j].value) => Len(r[j].value.items) >= 2
                    /\ \A h \in 1..Len(r) : r[h].key = r[j].key => h = j

WitGroupingCardinality ==
    /\ Len(chain) = 1
    /\ chain[1].kind = "record"
    /\ \E k1, k2, k3 \in Keys :
          /\ Len(getAll(input.entries, k1)) = 1
          /\ Len(getAll(input.entries, k2)) = 2
          /\ getAll(input.entries, k2)[1] # getAll(input.entries, k2)[2]
          /\ Len(getAll(input.entries, k3)) = 0

\* C3: under every key of the record fromFormDataRecord appends exactly the
\* non-null elements of the value in order (a scalar counts as one element),
\* a File as itself and anything else as its string; nothing under other keys.
InvFromFormDataRecord ==
    \A i \in 1..Len(chain) :
        chain[i].kind = "formData" =>
            LET r == Arg(i).obj
                fd == chain[i].entries
            IN /\ \A k \in Keys :
                    getAll(fd, k) = IF ObjHas(r, k) THEN ExpectedEntries(ObjGet(r, k))
                                    ELSE <<>>
               /\ \A j \in 1..Len(fd) : fd[j].name \in KeySet(r) /\ IsEntryValue(fd[j].value)

WitFromFormDataRecord ==
    /\ Len(chain) = 1
    /\ chain[1].kind = "formData"
    /\ \E i \in 1..Len(input.obj) :
          /\ IsArray(input.obj[i].value)
          /\ \E j, h \in 1..Len(input.obj[i].value.items) :
                /\ IsNullish(input.obj[i].value.items[j])
                /\ input.obj[i].value.items[h].t \in {"file", "num"}
    /\ Len(chain[1].entries) = 1

\* C7 as stated: the keys of toRecord's record enumerate in the order in
\* which each key first occurs in the submission, integer-like keys included.
InvFirstSeenKeyOrder ==
    \A i \in 1..Len(chain) :
        chain[i].kind = "record" => ObjKeys(chain[i].obj) = FirstSeen(Arg(i).entries)

\* C7 amended: the keys that are array indices enumerate first, in ascending
\* numeric order; the other keys follow in the order of their first
\* occurrence in the submission.
InvKeyOrder ==
    \A i \in 1..Len(chain) :
        chain[i].kind = "record" =>
            LET ks == ObjKeys(chain[i].obj)
                fs == FirstSeen(Arg(i).entries)
                other(k) == ~IsArrayIndex(k)
            IN /\ Len(ks) = Len(fs)
               /\ {ks[n] : n \in 1..Len(ks)} = {fs[n] : n \in 1..Len(fs)}
               /\ SelectSeq(ks, other) = SelectSeq(fs, other)
               /\ \A a, b \in 1..Len(ks) :
                    (a < b /\ IsArrayIndex(ks[b]))
                        => IsArrayIndex(ks[a]) /\ DecimalLess(ks[a], ks[b])

WitKeyOrder ==
    /\ Len(chain) = 1
    /\ chain[1].kind = "record"
    /\ FirstSeen(input.entries) = <<KeyA, Key10, Key2>>
    /\ ObjKeys(chain[1].obj) = <<Key2, Key10, KeyA>>

\* C10: fromFormDataRecord(toRecord(s)) has, under every key, the values s
\* has there, in the same order and with the same File handles; and
\* toRecord of it is toRecord(s) again.
InvReverseRoundTrip ==
    \A i \in 2..Len(chain) :
        /\ chain[i].kind = "formData" =>
              /\ \A k \in Keys :
                    getAll(chain[i].entries, k) = getAll(Arg(i - 1).entries, k)
              /\ {chain[i].entries[j].name : j \in 1..Len(chain[i].entries)}
                    = {Arg(i - 1).entries[j].name : j \in 1..Len(Arg(i - 1).entries)}
        /\ (chain[i].kind = "record" /\ i >= 3) => chain[i].obj = chain[i - 2].obj

WitReverseRoundTrip ==
    /\ Len(chain) = 3
    /\ input.kind = "formData"
    /\ chain[2].entries # input.entries
    /\ \E k \in Keys :
          /\ Len(getAll(input.entries, k)) = 2
          /\ getAll(input.entries, k)[1].t = "file"

(***************************************************************************)
(* Properties of the formatter and of decodeFormModel.  A node of an issue *)
(* tree is named by its address: the child numbers on the way from the     *)
(* root.                                                                   *)
(***************************************************************************)
NumChildren(node) ==
    CASE node._tag = "Composite" -> Len(asArray(node.issues))
      [] node._tag \in {"Pointer", "Refinement", "Transformation"} -> 1
      [] OTHER -> 0

Child(node, j) == IF node._tag = "Composite" THEN asArray(node.issues)[j] ELSE node.issue

RECURSIVE Size(_)
Size(node) ==
    LET RECURSIVE sum(_)
        sum(n) == IF n = 0 THEN 0 ELSE sum(n - 1) + Size(Child(node, n))
    IN 1 + sum(NumChildren(node))

RECURSIVE Addresses(_)
Addresses(node) ==
    {<<>>} \cup UNION {{<<j>> \o a : a \in Addresses(Child(node, j))} :
                            j \in 1..NumChildren(node)}

RECURSIVE NodeAt(_, _)
NodeAt(node, a) == IF a = <<>> THEN node ELSE NodeAt(Child(node, a[1]), Tail(a))

\* the place of a node in the order "a node first, then its children from
\* the first to the last"
RECURSIVE IndexOf(_, _)
IndexOf(node, a) ==
    IF a = <<>> THEN 1
    ELSE LET RECURSIVE before(_)
             before(n) == IF n = 0 THEN 0 ELSE before(n - 1) + Size(Child(node, n))
         IN 1 + before(a[1] - 1) + IndexOf(Child(node, a[1]), Tail(a))

Segments(node) == IF node.path.isArray THEN node.path.items ELSE <<node.path.item>>

\* the prefix a node is reached with when every Pointer above it has put its
\* segments after the prefix it was reached with
RECURSIVE PrefixAt(_, _, _)
PrefixAt(node, a, p) ==
    IF a = <<>> THEN p
    ELSE PrefixAt(Child(node, a[1]), Tail(a),
                  IF node._tag = "Pointer" THEN p \o Segments(node) ELSE p)

\* the same when every Pointer puts its segments before that prefix
RECURSIVE PrefixAtPrepending(_, _, _)
PrefixAtPrepending(node, a, p) ==
    IF a = <<>> THEN p
    ELSE PrefixAtPrepending(Child(node, a[1]), Tail(a),
                            IF node._tag = "Pointer" THEN Segments(node) \o p ELSE p)

IsPrefix(a, b) == Len(a) <= Len(b) /\ SubSeq(b, 1, Len(a)) = a

IsLeaf(node) == NumChildren(node) = 0

KeysOfEntries(es) == {es[i].key : i \in 1..Len(es)}

LastWith(es, k) == CHOOSE i \in 1..Len(es) :
                        es[i].key = k /\ \A j \in (i + 1)..Len(es) : es[j].key # k

Lookup(m, k) == IF k \in KeysOfEntries(m) THEN m[LastWith(m, k)].actual ELSE Undefined

FormattedKeys == {join(arrayIssues[i].path, Dot) : i \in 1..Len(arrayIssues)}

LastFormatted(k) ==
    CHOOSE i \in 1..Len(arrayIssues) :
        /\ join(arrayIssues[i].path, Dot) = k
        /\ \A j \in (i + 1)..Len(arrayIssues) : join(arrayIssues[j].path, Dot) # k

\* C4: decodeFormModel ends as the validator's one decode call ends: a
\* success with the validator's value, or a failure whose value is the merged
\* mapping of the validator's issue; never the other way round, and the
\* validator is called once.
InvDecodeOutcome ==
    /\ decodeCalls <= 1
    /\ pc # "idle" => decodeCalls = 1
    /\ pc = "done" =>
        /\ validated._tag = "Success" => outcome = [_tag |-> "Success", value |-> validated.value]
        /\ validated._tag = "Failure" =>
            /\ outcome._tag = "Failure"
            /\ issue = validated.value.issue
            /\ KeySet(outcome.value) = FormattedKeys
            /\ Len(outcome.value) = Cardinality(FormattedKeys)
            /\ \A k \in FormattedKeys :
                  ObjGet(outcome.value, k) =
                      [actual |-> Lookup(collectActualValues(validated.value.issue, <<>>), k),
                       message |-> arrayIssues[LastFormatted(k)].message]

WitDecodeOutcome ==
    /\ pc = "done"
    /\ validated._tag = "Failure"
    /\ validated.value.issue = AgeFieldIssue
    /\ arrayIssues = <<ArrayIssue(<<Str(KeyAge)>>, <<"m">>)>>
    /\ outcome = [_tag |-> "Failure",
                  value |-> <<[key |-> KeyAge,
                               value |-> [actual |-> Num17, message |-> <<"m">>]]>>]

\* C5: the keys of formatIssue's mapping are exactly the dot-joined paths of
\* the formatted list; each holds the message of the (last) formatted entry
\* of that path and the collector's actual value for the key, undefined when
\* the collector has none; paths only the collector knows are dropped.
InvMergedKeys ==
    formatted # Null =>
        /\ formatted._tag = "Success"
        /\ KeySet(formatted.value) = FormattedKeys
        /\ Len(formatted.value) = Cardinality(FormattedKeys)
        /\ \A k \in FormattedKeys :
              ObjGet(formatted.value, k) =
                  [actual |-> IF k \in KeysOfEntries(actualMap)
                              THEN actualMap[LastWith(actualMap, k)].actual
                              ELSE Undefined,
                   message |-> arrayIssues[LastFormatted(k)].message]

WitMergedKeys ==
    /\ formatted # Null
    /\ \E k \in KeysOfEntries(actualMap) : k \notin KeySet(formatted.value)
    /\ \E k \in KeySet(formatted.value) :
          k \notin KeysOfEntries(actualMap) /\ ObjGet(formatted.value, k).actual = Undefined
    /\ \E k \in KeySet(formatted.value) :
          k \in KeysOfEntries(actualMap) /\ ObjGet(formatted.value, k).actual = Num17

\* C6 as stated: whenever a Transformation or Refinement node and a leaf
\* below it, with no Pointer in between, both carry an actual value, the
\* mapping holds the leaf's value at their path.
InvLeafValueWins ==
    formatted # Null =>
        \A a, b \in Addresses(issue) :
            LET upper == NodeAt(issue, a)
                leaf == NodeAt(issue, b)
            IN (/\ upper._tag \in {"Transformation", "Refinement"}
                /\ IsPrefix(a, b) /\ a # b
                /\ IsLeaf(leaf)
                /\ \A c \in Addresses(issue) :
                      (IsPrefix(a, c) /\ IsPrefix(c, b)) => NodeAt(issue, c)._tag # "Pointer"
                /\ upper.actual # Undefined
                /\ leaf.actual # Undefined)
               => MapGet(actualMap, join(PrefixAt(issue, a, <<>>), Dot)) = leaf.actual

\* C6 amended: the mapping holds, for every path, the actual of the last
\* entry the traversal emitted for it; that is the leaf's value when no entry
\* emitted after the leaf's has the same path, as for age=17.
InvLastWriteWins ==
    formatted # Null =>
        /\ KeysOfEntries(actualMap) = KeysOfEntries(actualEntries)
        /\ Len(actualMap) = Cardinality(KeysOfEntries(actualEntries))
        /\ \A k \in KeysOfEntries(actualEntries) :
              MapGet(actualMap, k) = actualEntries[LastWith(actualEntries, k)].actual
        /\ \A a, b \in Addresses(issue) :
              LET upper == NodeAt(issue, a)
                  leaf == NodeAt(issue, b)
                  k == join(PrefixAt(issue, a, <<>>), Dot)
              IN (/\ upper._tag \in {"Transformation", "Refinement"}
                  /\ IsPrefix(a, b) /\ a # b
                  /\ IsLeaf(leaf)
                  /\ \A c \in Addresses(issue) :
                        (IsPrefix(a, c) /\ IsPrefix(c, b)) => NodeAt(issue, c)._tag # "Pointer"
                  /\ upper.actual # Undefined
                  /\ leaf.actual # Undefined
                  /\ \A i \in (IndexOf(issue, b) + 1)..Len(actualEntries) :
                        actualEntries[i].key # k)
                 => MapGet(actualMap, k) = leaf.actual
        /\ (issue = AgeIssue /\ arrayIssues = <<ArrayIssue(<<Str(KeyAge)>>, <<"m">>)>>)
              => ObjGet(formatted.value, KeyAge).actual = Num17

WitLastWriteWins ==
    /\ formatted # Null
    /\ issue = AgeIssue
    /\ arrayIssues = <<ArrayIssue(<<Str(KeyAge)>>, <<"m">>)>>
    /\ actualEntries = <<[key |-> <<>>, actual |-> Obj], [key |-> KeyAge, actual |-> Obj],
                         [key |-> KeyAge, actual |-> Str17], [key |-> KeyAge, actual |-> Num17]>>

\* C8 as stated: a Pointer reached with prefix p puts its own segments before
\* p, emits (join(newPath), actual) first and collects its child with newPath.
InvPointerPrepends ==
    formatted # Null =>
        \A a \in Addresses(issue) :
            LET node == NodeAt(issue, a)
                newPath == Segments(node) \o PrefixAtPrepending(issue, a, <<>>)
                i == IndexOf(issue, a)
            IN node._tag = "Pointer" =>
                  /\ actualEntries[i] = [key |-> join(newPath, Dot), actual |-> node.actual]
                  /\ actualEntries[i + 1].key =
                        join(IF node.issue._tag = "Pointer"
                             THEN Segments(node.issue) \o newPath ELSE newPath, Dot)

\* C8 amended: a Pointer reached with prefix p puts its own segments after p
\* (newPath is p followed by the segments), emits (join(newPath), actual)
\* first and collects its child with newPath, at any depth; a Pointer with
\* one segment at the root yields that segment as key, a leaf at the root
\* yields the key "".
InvPointerAppends ==
    formatted # Null =>
        /\ \A a \in Addresses(issue) :
              LET node == NodeAt(issue, a)
                  newPath == PrefixAt(issue, a, <<>>) \o Segments(node)
                  i == IndexOf(issue, a)
              IN node._tag = "Pointer" =>
                    /\ actualEntries[i] = [key |-> join(newPath, Dot), actual |-> node.actual]
                    /\ actualEntries[i + 1].key =
                          join(IF node.issue._tag = "Pointer"
                               THEN newPath \o Segments(node.issue) ELSE newPath, Dot)
        /\ (issue._tag = "Pointer" /\ ~issue.path.isArray)
              => actualEntries[1].key = issue.path.item.s
        /\ IsLeaf(issue) => actualEntries = <<[key |-> <<>>, actual |-> issue.actual]>>

WitPointerAppends ==
    /\ formatted # Null
    /\ issue._tag = "Pointer"
    /\ issue.issue._tag = "Pointer"
    /\ Segments(issue) # Segments(issue.issue)
    /\ Len(Segments(issue.issue)) = 2
    /\ IsLeaf(issue.issue.issue)

\* C9: a node that is no Pointer emits (join(p), actual) for the prefix p it
\* was reached with before anything of its children, then the entries of its
\* children in child order, each child collected with that same p; so the
\* traversal emits one entry per node and a path grows at Pointer nodes only.
InvCompositePassesPrefix ==
    formatted # Null =>
        /\ Len(actualEntries) = Size(issue)
        /\ \A a \in Addresses(issue) :
              LET node == NodeAt(issue, a)
                  p == PrefixAt(issue, a, <<>>)
              IN node._tag # "Pointer" =>
                    /\ actualEntries[IndexOf(issue, a)] =
                          [key |-> join(p, Dot), actual |-> node.actual]
                    /\ \A j \in 1..NumChildren(node) :
                          LET child == Child(node, j)
                          IN actualEntries[IndexOf(issue, a \o <<j>>)] =
                                [key |-> join(IF child._tag = "Pointer"
                                              THEN p \o Segments(child) ELSE p, Dot),
                                 actual |-> child.actual]

WitCompositePassesPrefix ==
    /\ formatted # Null
    /\ issue._tag = "Pointer"
    /\ issue.issue._tag = "Composite"
    /\ issue.issue.issues.isArray
    /\ Len(issue.issue.issues.items) = 2
    /\ issue.issue.issues.items[1] # issue.issue.issues.items[2]

====
